---- MODULE Spec2Model ----
(***************************************************************************)
(* Drill-Down-Flow backend: text decomposition (drilldown.py), the         *)
(* mutation helpers (mutate.py), the JSON document store (storage.py),     *)
(* the Neo4j cross-link index (graph.py, rebuild.py) and the request       *)
(* handlers that tie them together (main.py).                              *)
(*                                                                         *)
(* A text is a sequence of one-character strings.  A Python call either    *)
(* returns a value or raises: [exc |-> "", val |-> v] or                   *)
(* [exc |-> "ValueError", val |-> <<>>].                                   *)
(***************************************************************************)
EXTENDS Integers, Sequences, FiniteSets, TLC

VARIABLES
    store,        \* storage.py: the data directory, document id -> paragraph
    graph,        \* the Neo4j database: nodes and relationships
    neo4jUp,      \* environment: whether the Neo4j server answers
    driver,       \* graph.py _driver: "none" or "conn"
    initialized,  \* graph.py _initialized
    running,      \* whether the FastAPI process is up (startup_index has run)
    resp,         \* the response of the last handler
    nops,         \* number of handler calls so far (bounded by MaxOps)
    thr,          \* request threads of the concurrent specification
    call          \* the call under test of the pure-function specifications

vars == <<store, graph, neo4jUp, driver, initialized, running, resp, nops, thr, call>>

----------------------------------------------------------------------------
(* Bounds *)

MaxLen == 4        \* longest text given to split_text
MaxDelimLen == 2   \* longest delimiter given to split_text
MaxOps == 2        \* handler calls in one run (the process start is one)
MaxTextLen == 3    \* longest text given to insert_at, delete_at, reorder
MaxValueLen == 2   \* longest value given to insert_at

----------------------------------------------------------------------------
(* Python values *)

Ok(v) == [exc |-> "", val |-> v]
Raise(e) == [exc |-> e, val |-> <<>>]

Min(S) == CHOOSE x \in S : \A y \in S : x <= y

\* "not text" / "p != ''": the empty string
IsEmpty(s) == Len(s) = 0

\* str.split(sep) for a non-empty sep: cut at the leftmost occurrences of
\* sep, scanning left to right, never overlapping; always >= 1 piece.
RECURSIVE PySplit(_, _)
PySplit(text, sep) ==
    LET n == Len(text)
        m == Len(sep)
        occ == {i \in 1..(n - m + 1) : SubSeq(text, i, i + m - 1) = sep}
    IN  IF occ = {} THEN <<text>>
        ELSE LET i == Min(occ)
             IN  <<SubSeq(text, 1, i - 1)>> \o PySplit(SubSeq(text, i + m, n), sep)

\* list(text): one one-character string per character
PyList(text) == [i \in 1..Len(text) |-> <<text[i]>>]

\* sep.join(parts); "".join(parts) when sep is empty
RECURSIVE PyJoin(_, _)
PyJoin(parts, sep) ==
    IF Len(parts) = 0 THEN <<>>
    ELSE IF Len(parts) = 1 THEN parts[1]
    ELSE parts[1] \o sep \o PyJoin(Tail(parts), sep)

----------------------------------------------------------------------------
(* drilldown.py *)

NonEmpty(p) == ~IsEmpty(p)

split_text_strip(text, delimiter, level) ==
    IF IsEmpty(text) THEN Ok(<<>>)
    ELSE IF level = 3 /\ IsEmpty(delimiter) THEN Ok(PyList(text))
    ELSE IF IsEmpty(delimiter) THEN Raise("ValueError")
    ELSE Ok(SelectSeq(PySplit(text, delimiter),
                   LAMBDA p : \E i \in 1..Len(p) : p[i] \notin {" ", "\n", "\t"}))

\* split_text(text, delimiter, level); str.split("") raises ValueError
split_text(text, delimiter, level) ==
    IF IsEmpty(text) THEN Ok(<<>>)
    ELSE IF level = 3 /\ IsEmpty(delimiter) THEN Ok(PyList(text))
    ELSE IF IsEmpty(delimiter) THEN Raise("ValueError: empty separator")
    ELSE Ok(SelectSeq(PySplit(text, delimiter), NonEmpty))

----------------------------------------------------------------------------
(* mutate.py *)

m_split_nonempty(text, delimiter) ==
    IF IsEmpty(delimiter) THEN PyList(text)
    ELSE SelectSeq(PySplit(text, delimiter), LAMBDA part : ~IsEmpty(part))

\* _split(text, delimiter)
m_split(text, delimiter) ==
    IF IsEmpty(delimiter) THEN PyList(text) ELSE PySplit(text, delimiter)

\* _join(parts, delimiter)
m_join(parts, delimiter) == PyJoin(parts, delimiter)

----------------------------------------------------------------------------
(* Python list and string helpers, indices 0-based as in the source *)

\* parts.insert(i, v), 0 <= i <= len(parts)
ListInsert(parts, i, v) == SubSeq(parts, 1, i) \o <<v>> \o SubSeq(parts, i + 1, Len(parts))

\* parts.pop(i), 0 <= i < len(parts): the list without element i
ListPop(parts, i) == SubSeq(parts, 1, i) \o SubSeq(parts, i + 2, Len(parts))

\* max(0, min(position, n))
Clamp(position, n) ==
    IF position < 0 THEN 0 ELSE IF position > n THEN n ELSE position

LowerCase == <<"a", "b", "c", "d", "e", "f", "g", "h", "i", "j", "k", "l", "m",
               "n", "o", "p", "q", "r", "s", "t", "u", "v", "w", "x", "y", "z">>
UpperCase == <<"A", "B", "C", "D", "E", "F", "G", "H", "I", "J", "K", "L", "M",
               "N", "O", "P", "Q", "R", "S", "T", "U", "V", "W", "X", "Y", "Z">>

Whitespace == {" ", "\n", "\t"}

\* str.strip()
PyStrip(s) ==
    LET ink == {i \in 1..Len(s) : s[i] \notin Whitespace}
    IN  IF ink = {} THEN <<>>
        ELSE SubSeq(s, Min(ink), CHOOSE j \in ink : \A k \in ink : k <= j)

\* str.lower()
PyLower(s) ==
    [i \in 1..Len(s) |->
       IF \E k \in DOMAIN UpperCase : UpperCase[k] = s[i]
       THEN LowerCase[CHOOSE k \in DOMAIN UpperCase : UpperCase[k] = s[i]]
       ELSE s[i]]

\* code points, for the order of strings
Code(c) ==
    CASE c = "\t" -> 9 [] c = "\n" -> 10 [] c = " " -> 32 [] c = "-" -> 45 [] c = "." -> 46
      [] \E i \in DOMAIN UpperCase : UpperCase[i] = c ->
           64 + (CHOOSE i \in DOMAIN UpperCase : UpperCase[i] = c)
      [] \E i \in DOMAIN LowerCase : LowerCase[i] = c ->
           96 + (CHOOSE i \in DOMAIN LowerCase : LowerCase[i] = c)

\* s < t for Python strings
RECURSIVE StrLess(_, _)
StrLess(s, t) ==
    IF Len(t) = 0 THEN FALSE
    ELSE IF Len(s) = 0 THEN TRUE
    ELSE IF s[1] # t[1] THEN Code(s[1]) < Code(t[1])
    ELSE StrLess(Tail(s), Tail(t))

----------------------------------------------------------------------------
(* mutate.py: insert, delete, reorder on the segment list of a text *)

\* insert_at(text, delimiter, position, value)
insert_at(text, delimiter, position, value) ==
    LET parts == m_split(text, delimiter)
    IN  m_join(ListInsert(parts, Clamp(position, Len(parts)), value), delimiter)

delete_at_clamped(text, delimiter, position) ==
    LET parts == m_split(text, delimiter)
    IN  IF Len(parts) > 0
        THEN m_join(ListPop(parts, Clamp(position, Len(parts) - 1)), delimiter)
        ELSE m_join(parts, delimiter)

\* delete_at(text, delimiter, position)
delete_at(text, delimiter, position) ==
    LET parts == m_split(text, delimiter)
    IN  IF 0 <= position /\ position < Len(parts)
        THEN m_join(ListPop(parts, position), delimiter)
        ELSE m_join(parts, delimiter)

reorder_unshifted(text, delimiter, from_i, to_i) ==
    LET parts == m_split(text, delimiter)
    IN  IF 0 <= from_i /\ from_i < Len(parts) /\ 0 <= to_i /\ to_i < Len(parts)
        THEN m_join(ListInsert(ListPop(parts, from_i),
                               IF from_i < to_i THEN to_i - 1 ELSE to_i,
                               parts[from_i + 1]), delimiter)
        ELSE m_join(parts, delimiter)

\* reorder(text, delimiter, from_i, to_i)
reorder(text, delimiter, from_i, to_i) ==
    LET parts == m_split(text, delimiter)
    IN  IF 0 <= from_i /\ from_i < Len(parts) /\ 0 <= to_i /\ to_i < Len(parts)
        THEN m_join(ListInsert(ListPop(parts, from_i), to_i, parts[from_i + 1]), delimiter)
        ELSE m_join(parts, delimiter)

----------------------------------------------------------------------------
(* main.py: the paragraph a mutation request makes of the loaded one.      *)
(* An Optional[int] is <<>> (None) or <<i>>.  The result is                *)
(* [status, paragraph]: 200 with the new paragraph, 400 for an             *)
(* HTTPException(400), 500 for an exception nothing catches.               *)

NL == <<"\n">>
SP == <<" ">>

Done(paragraph) == [status |-> 200, exc |-> "", paragraph |-> paragraph]
Fail(status, exc) == [status |-> status, exc |-> exc, paragraph |-> <<>>]

InRange(i, n) == 0 <= i /\ i < n

\* lines[li] = text; "\n".join(lines)
SetLine(lines, li, text) == PyJoin([lines EXCEPT ![li + 1] = text], NL)

\* li = req.parentIndex if req.parentIndex is not None else 0
Level2Line(parentIndex) == IF parentIndex # <<>> THEN parentIndex[1] ELSE 0

\* li = req.lineIndex if req.lineIndex is not None
\*      else (req.parentIndex if req.parentIndex is not None else 0)
Level3Line(parentIndex, lineIndex) ==
    IF lineIndex # <<>> THEN lineIndex[1]
    ELSE IF parentIndex # <<>> THEN parentIndex[1] ELSE 0

\* wi = req.parentIndex if req.lineIndex is not None else 0
\* (None when lineIndex is given without parentIndex)
Level3Word(parentIndex, lineIndex) == IF lineIndex # <<>> THEN parentIndex ELSE <<0>>

\* the helper of mutate.py a request of this kind calls on one segment list
EditText(text, delimiter, req) ==
    CASE req.kind = "insert" -> insert_at(text, delimiter, req.position, req.value)
      [] req.kind = "delete" -> delete_at(text, delimiter, req.position)
      [] OTHER -> reorder(text, delimiter, req.fromIndex, req.toIndex)

\* level 2: the line li rewritten, or HTTPException(400)
Level2Edit(lines, req) ==
    LET li == Level2Line(req.parentIndex)
    IN  IF InRange(li, Len(lines))
        THEN Done(SetLine(lines, li, EditText(lines[li + 1], SP, req)))
        ELSE Fail(400, "HTTPException")

\* level 3: the word wi of line li rewritten, or the 400 / 500 the handler
\* ends with; 0 <= None raises TypeError.  mutate_delete removes the word
\* when it became empty.
Level3Edit(lines, req) ==
    LET li == Level3Line(req.parentIndex, req.lineIndex)
        wi == Level3Word(req.parentIndex, req.lineIndex)
    IN  IF ~InRange(li, Len(lines)) THEN Fail(400, "HTTPException")
        ELSE LET words == PySplit(lines[li + 1], SP)
             IN  IF wi = <<>> THEN Fail(500, "TypeError")
                 ELSE IF ~InRange(wi[1], Len(words)) THEN Fail(400, "HTTPException")
                 ELSE LET w == EditText(words[wi[1] + 1], <<>>, req)
                          ws == IF req.kind = "delete" /\ IsEmpty(w)
                                THEN ListPop(words, wi[1])
                                ELSE [words EXCEPT ![wi[1] + 1] = w]
                      IN  Done(SetLine(lines, li, PyJoin(ws, SP)))

\* level 1 of mutate_insert, mutate_delete, mutate_reorder
Level1Edit(paragraph, lines, req) ==
    CASE req.kind = "insert" ->
           Done(PyJoin(ListInsert(lines, Clamp(req.position, Len(lines)), req.value), NL))
      [] req.kind = "delete" ->
           IF InRange(req.position, Len(lines))
           THEN Done(PyJoin(ListPop(lines, req.position), NL))
           ELSE Fail(400, "HTTPException")
      [] OTHER -> Done(reorder(paragraph, NL, req.fromIndex, req.toIndex))

\* mutate_insert / mutate_delete / mutate_reorder, from the loaded
\* paragraph to doc["paragraph"]; req is [kind, level, parentIndex,
\* lineIndex, position, value, fromIndex, toIndex]
mutate_paragraph(paragraph, req) ==
    LET lines == PySplit(paragraph, NL)
    IN  CASE req.level = 1 -> Level1Edit(paragraph, lines, req)
          [] req.level = 2 -> Level2Edit(lines, req)
          [] req.level = 3 -> Level3Edit(lines, req)
          [] OTHER -> Fail(400, "HTTPException")

----------------------------------------------------------------------------
(* graph.py: what index_document and the fallbacks derive from a paragraph *)

\* normalize(word)
normalize(word) == PyLower(PyStrip(word))

Truthy(s) == ~IsEmpty(PyStrip(s))

\* [l for l in paragraph.split("\n") if l.strip()]
IndexLines(paragraph) == SelectSeq(PySplit(paragraph, <<"\n">>), Truthy)

\* [w for w in line_text.split(" ") if w.strip()]
IndexWords(line_text) == SelectSeq(PySplit(line_text, <<" ">>), Truthy)

RECURSIVE Concat(_)
Concat(seqs) == IF Len(seqs) = 0 THEN <<>> ELSE seqs[1] \o Concat(Tail(seqs))

Range(f) == {f[i] : i \in DOMAIN f}

\* the entries the two nested loops over lines and words make, in loop
\* order, each with the normalized word it is filed under
OccurrenceList(doc_id, paragraph) ==
    LET lines == IndexLines(paragraph)
    IN  Concat([li \in 1..Len(lines) |->
          LET words == IndexWords(lines[li])
          IN  [wi \in 1..Len(words) |->
                 [docId |-> doc_id, lineIndex |-> li - 1, lineText |-> lines[li],
                  paragraphText |-> paragraph, wordIndex |-> wi - 1, raw |-> words[wi],
                  word |-> normalize(words[wi])]]])

\* {docId, lineIndex, lineText, wordIndex, raw}
OccurrenceEntry(o) ==
    [docId |-> o.docId, lineIndex |-> o.lineIndex, lineText |-> o.lineText,
     wordIndex |-> o.wordIndex, raw |-> o.raw]

\* {docId, lineIndex, lineText, paragraphText, wordIndex, raw}
ParentEntry(o) ==
    [docId |-> o.docId, lineIndex |-> o.lineIndex, lineText |-> o.lineText,
     paragraphText |-> o.paragraphText, wordIndex |-> o.wordIndex, raw |-> o.raw]

----------------------------------------------------------------------------
(* The Neo4j database.  docs: Document nodes (by id); paras: Paragraph      *)
(* nodes with their HAS_PARAGRAPH; lines: Line nodes with their HAS_LINE;   *)
(* words: Word nodes (by normalized); rels: HAS_WORD relationships from     *)
(* the line (docId, lineIndex) to the word node.                            *)

\* MATCH (d:Document {id: $did})-[*]->(n) DETACH DELETE n
\* every node reachable from the document goes, the shared Word nodes too,
\* and DETACH removes every relationship of a deleted node
PurgeReachable(g, did) ==
    IF did \notin g.docs THEN g
    ELSE LET reached == {r.word : r \in {x \in g.rels : x.docId = did}}
         IN  [g EXCEPT !.paras = {x \in g.paras : x.docId # did},
                       !.lines = {x \in g.lines : x.docId # did},
                       !.words = g.words \ reached,
                       !.rels = {x \in g.rels : x.docId # did /\ x.word \notin reached}]

\* MATCH (d:Document {id: $did}) DETACH DELETE d
PurgeDocument(g, did) == [g EXCEPT !.docs = g.docs \ {did}]

\* CREATE (d:Document) CREATE (p:Paragraph) CREATE (d)-[:HAS_PARAGRAPH]->(p)
CreateDocument(g, did, text) ==
    [g EXCEPT !.docs = g.docs \cup {did},
              !.paras = g.paras \cup {[docId |-> did, text |-> text]}]

\* MATCH (p:Paragraph {documentId: $did}) CREATE (l:Line) CREATE (p)-[:HAS_LINE]->(l)
CreateLine(g, did, li, text) ==
    IF \E p \in g.paras : p.docId = did
    THEN [g EXCEPT !.lines = g.lines \cup {[docId |-> did, index |-> li, text |-> text]}]
    ELSE g

CreateWord_raw(g, did, li, wi, raw) ==
    IF \E l \in g.lines : l.docId = did /\ l.index = li
    THEN [g EXCEPT !.words = g.words \cup {raw},
                   !.rels = g.rels \cup {[docId |-> did, lineIndex |-> li, wordIndex |-> wi,
                                          raw |-> raw, word |-> raw]}]
    ELSE g

\* MATCH (l:Line {documentId: $did, index: $li}) MERGE (w:Word {normalized: $nw})
\* CREATE (l)-[:HAS_WORD {order: $wi, raw: $raw}]->(w)
CreateWord(g, did, li, wi, raw) ==
    IF \E l \in g.lines : l.docId = did /\ l.index = li
    THEN [g EXCEPT !.words = g.words \cup {normalize(raw)},
                   !.rels = g.rels \cup {[docId |-> did, lineIndex |-> li, wordIndex |-> wi,
                                          raw |-> raw, word |-> normalize(raw)]}]
    ELSE g

\* the session.run calls of index_document, in the order it issues them
RECURSIVE WordStatements(_, _, _)
WordStatements(li, words, wi) ==
    IF wi >= Len(words) THEN <<>>
    ELSE <<[k |-> "word", li |-> li, wi |-> wi, text |-> words[wi + 1]]>>
         \o WordStatements(li, words, wi + 1)

RECURSIVE LineStatements(_, _)
LineStatements(lines, li) ==
    IF li >= Len(lines) THEN <<>>
    ELSE <<[k |-> "line", li |-> li, wi |-> 0, text |-> lines[li + 1]]>>
         \o WordStatements(li, IndexWords(lines[li + 1]), 0)
         \o LineStatements(lines, li + 1)

IndexStatements(paragraph) ==
    << [k |-> "purge", li |-> 0, wi |-> 0, text |-> <<>>],
       [k |-> "purgedoc", li |-> 0, wi |-> 0, text |-> <<>>],
       [k |-> "create", li |-> 0, wi |-> 0, text |-> paragraph] >>
    \o LineStatements(IndexLines(paragraph), 0)

RunStatement(g, did, st) ==
    CASE st.k = "purge" -> PurgeReachable(g, did)
      [] st.k = "purgedoc" -> PurgeDocument(g, did)
      [] st.k = "create" -> CreateDocument(g, did, st.text)
      [] st.k = "line" -> CreateLine(g, did, st.li, st.text)
      [] OTHER -> CreateWord(g, did, st.li, st.wi, st.text)

RECURSIVE RunStatements(_, _, _, _)
RunStatements(g, did, sts, n) ==
    IF n = 0 THEN g
    ELSE RunStatement(RunStatements(g, did, sts, n - 1), did, sts[n])

\* index_document(doc_id, paragraph) on a connected driver.  failAt = 0: no
\* statement fails; failAt = k: the k-th session.run raises, the statements
\* before it are committed (each session.run is its own transaction).
index_document_nopurge(g, doc_id, paragraph, failAt) ==
    LET sts == SubSeq(IndexStatements(paragraph), 3, Len(IndexStatements(paragraph)))
        fails == failAt \in 1..Len(sts)
    IN  [graph |-> RunStatements(g, doc_id, sts, IF fails THEN failAt - 1 ELSE Len(sts)),
         exc |-> IF fails THEN "ServiceUnavailable" ELSE ""]

index_document(g, doc_id, paragraph, failAt) ==
    LET sts == IndexStatements(paragraph)
        fails == failAt \in 1..Len(sts)
    IN  [graph |-> RunStatements(g, doc_id, sts, IF fails THEN failAt - 1 ELSE Len(sts)),
         exc |-> IF fails THEN "ServiceUnavailable" ELSE ""]

\* delete_document_graph(doc_id) on a connected driver
delete_document_graph(g, doc_id, failAt) ==
    [graph |-> IF failAt = 1 THEN g
               ELSE IF failAt = 2 THEN PurgeReachable(g, doc_id)
               ELSE PurgeDocument(PurgeReachable(g, doc_id), doc_id),
     exc |-> IF failAt \in {1, 2} THEN "ServiceUnavailable" ELSE ""]

\* MATCH (d:Document)-[:HAS_PARAGRAPH]->()-[:HAS_LINE]->(l:Line)-[r:HAS_WORD]->(w:Word)
GraphPaths(g) ==
    { [docId |-> r.docId, lineIndex |-> r.lineIndex, lineText |-> l.text,
       paragraphText |-> p.text, wordIndex |-> r.wordIndex, raw |-> r.raw, word |-> r.word]
      : <<r, l, p>> \in
          { t \in g.rels \X g.lines \X g.paras :
              /\ t[1].docId \in g.docs /\ t[1].word \in g.words
              /\ t[2].docId = t[1].docId /\ t[2].index = t[1].lineIndex
              /\ t[3].docId = t[1].docId } }

----------------------------------------------------------------------------
(* drilldown.py: build_full_tree.  A node is [id, nodeLevel, label, index,  *)
(* lineIndex, wordIndex] (-1 where the source sets no such key), an edge is *)
(* [id, source, target]; positions and styling are left out.                *)

Digits == <<"0", "1", "2", "3", "4", "5", "6", "7", "8", "9">>

\* f"{n}" for n >= 0
RECURSIVE Dec(_)
Dec(n) == IF n < 10 THEN <<Digits[n + 1]>> ELSE Dec(n \div 10) \o <<Digits[(n % 10) + 1]>>

\* "not paragraph or not paragraph.strip()"
Blank(paragraph) == IsEmpty(paragraph) \/ IsEmpty(PyStrip(paragraph))

RootId == <<"p", "a", "r", "a">>
LineId(li) == <<"L">> \o Dec(li)
WordId(li, wi) == LineId(li) \o <<"-", "W">> \o Dec(wi)
CharId(li, wi, ci) == WordId(li, wi) \o <<"-", "C">> \o Dec(ci)
EdgeId(target) == <<"e", "-">> \o target

TreeNode(id, nodeLevel, label, index, lineIndex, wordIndex) ==
    [id |-> id, nodeLevel |-> nodeLevel, label |-> label, index |-> index,
     lineIndex |-> lineIndex, wordIndex |-> wordIndex]

\* nodes.append(...); edges.append(...) for one node below the root
TreeItem(node, source, edgeId) ==
    [node |-> node, edge |-> [id |-> edgeId, source |-> source, target |-> node.id]]

\* the word node and, from depth 3, its character nodes
WordItems(li, wi, word_text, depth) ==
    <<TreeItem(TreeNode(WordId(li, wi), 2, word_text, wi, li, 0 - 1), LineId(li),
               EdgeId(WordId(li, wi)))>>
    \o IF depth < 3 THEN <<>>
       ELSE [c \in 1..Len(word_text) |->
               TreeItem(TreeNode(CharId(li, wi, c - 1), 3, <<word_text[c]>>, c - 1, li, wi),
                        WordId(li, wi), EdgeId(CharId(li, wi, c - 1)))]

\* the line node and, from depth 2, what its words add
LineItems(li, line_text, word_delimiter, depth) ==
    <<TreeItem(TreeNode(LineId(li), 1, line_text, li, 0 - 1, 0 - 1), RootId,
               <<"e", "-">> \o RootId \o <<"-">> \o LineId(li))>>
    \o IF depth < 2 THEN <<>>
       ELSE LET words == split_text(line_text, word_delimiter, 2).val
            IN  Concat([w \in 1..Len(words) |-> WordItems(li, w - 1, words[w], depth)])

build_full_tree_deep(paragraph, line_delimiter, word_delimiter, depth) ==
    IF Blank(paragraph) THEN [nodes |-> <<>>, edges |-> <<>>]
    ELSE LET lines == split_text(paragraph, line_delimiter, 1).val
             items == Concat([l \in 1..Len(lines) |->
                                LineItems(l - 1, lines[l], word_delimiter, depth + 1)])
         IN  [nodes |-> <<TreeNode(RootId, 0, <<>>, 0 - 1, 0 - 1, 0 - 1)>>
                          \o [i \in DOMAIN items |-> items[i].node],
              edges |-> [i \in DOMAIN items |-> items[i].edge]]

\* build_full_tree(document_id, paragraph, line_delimiter, word_delimiter,
\* char_delimiter, depth) with non-empty delimiters (document_id is copied
\* into the nodes, char_delimiter is not read)
build_full_tree(paragraph, line_delimiter, word_delimiter, depth) ==
    IF Blank(paragraph) THEN [nodes |-> <<>>, edges |-> <<>>]
    ELSE LET lines == split_text(paragraph, line_delimiter, 1).val
             items == Concat([l \in 1..Len(lines) |->
                                LineItems(l - 1, lines[l], word_delimiter, depth)])
         IN  [nodes |-> <<TreeNode(RootId, 0, <<>>, 0 - 1, 0 - 1, 0 - 1)>>
                          \o [i \in DOMAIN items |-> items[i].node],
              edges |-> [i \in DOMAIN items |-> items[i].edge]]

----------------------------------------------------------------------------
(* storage.py *)

\* the characters of a document id
IdChars(id) ==
    CASE id = "A" -> <<"A">> [] id = "B" -> <<"B">> [] id = "C" -> <<"C">>
      [] id = "a" -> <<"a">> [] id = "a-b" -> <<"a", "-", "b">>

\* _doc_path(doc_id): the name of the file of a document
FileName(id) == IdChars(id) \o <<".", "j", "s", "o", "n">>

\* list_documents(): the files in sorted(glob("*.json")) order, which is
\* the order of the file names, as {id, paragraph}
RECURSIVE SortedIds(_)
SortedIds(S) ==
    IF S = {} THEN <<>>
    ELSE LET m == CHOOSE x \in S : \A y \in S \ {x} : StrLess(FileName(x), FileName(y))
         IN  <<m>> \o SortedIds(S \ {m})

list_documents(st) ==
    LET ids == SortedIds(DOMAIN st)
    IN  [i \in 1..Len(ids) |-> [id |-> ids[i], paragraph |-> st[ids[i]]]]

\* save_document / create_document: the file of doc_id now holds paragraph
save_document(st, doc_id, paragraph) ==
    [d \in DOMAIN st \cup {doc_id} |-> IF d = doc_id THEN paragraph ELSE st[d]]

\* delete_document: the file is unlinked
delete_document(st, doc_id) == [d \in DOMAIN st \ {doc_id} |-> st[d]]

----------------------------------------------------------------------------
(* graph.py: the cross-link queries *)

\* the order of sorted(index.items()) alone: by word
EntryBefore_byword(e, f) == StrLess(e.word, f.word)

\* ORDER BY SIZE(docs) DESC, word / key=(-len(documents), word)
EntryBefore(e, f) ==
    \/ Cardinality(e.documents) > Cardinality(f.documents)
    \/ /\ Cardinality(e.documents) = Cardinality(f.documents)
       /\ StrLess(e.word, f.word)

RECURSIVE SortEntries(_)
SortEntries(S) ==
    IF S = {} THEN <<>>
    ELSE LET m == CHOOSE e \in S : \A f \in S \ {e} : EntryBefore(e, f)
         IN  <<m>> \o SortEntries(S \ {m})

\* find_common_words() on a connected driver; COLLECT gives the
\* occurrences of a word in no stated order: a set
find_common_words(g) ==
    LET paths == GraphPaths(g)
        entries == { [word |-> w,
                      documents |-> {o.docId : o \in {x \in paths : x.word = w}},
                      occurrences |-> {OccurrenceEntry(o) : o \in {x \in paths : x.word = w}}]
                     : w \in {o.word : o \in paths} }
    IN  SortEntries({e \in entries : Cardinality(e.documents) > 1})

find_common_words_fallback_any(st) ==
    LET docs == list_documents(st)
        all == Concat([i \in 1..Len(docs) |-> OccurrenceList(docs[i].id, docs[i].paragraph)])
        entries == { [word |-> w,
                      documents |-> {o.docId : o \in {x \in Range(all) : x.word = w}},
                      occurrences |-> [i \in DOMAIN SelectSeq(all, LAMBDA o : o.word = w) |->
                                         OccurrenceEntry(SelectSeq(all, LAMBDA o : o.word = w)[i])]]
                     : w \in {o.word : o \in Range(all)} }
    IN  SortEntries({e \in entries : Len(e.occurrences) > 1})

\* _find_common_words_fallback()
find_common_words_fallback(st) ==
    LET docs == list_documents(st)
        all == Concat([i \in 1..Len(docs) |-> OccurrenceList(docs[i].id, docs[i].paragraph)])
        entries == { [word |-> w,
                      documents |-> {o.docId : o \in {x \in Range(all) : x.word = w}},
                      occurrences |-> [i \in DOMAIN SelectSeq(all, LAMBDA o : o.word = w) |->
                                         OccurrenceEntry(SelectSeq(all, LAMBDA o : o.word = w)[i])]]
                     : w \in {o.word : o \in Range(all)} }
    IN  SortEntries({e \in entries : Cardinality(e.documents) > 1})

\* document_id is Optional[str]: <<>> is None, <<id>> is the id
WantedDoc(document_id, did) == document_id = <<>> \/ document_id = <<did>>

\* the rows of traverse_word_parents(word, document_id) on a connected driver
TraverseRows(g, word, document_id) ==
    {ParentEntry(o) : o \in {x \in GraphPaths(g) :
        x.word = normalize(word) /\ WantedDoc(document_id, x.docId)}}

\* ORDER BY d.id, l.index: every order of the rows that is sorted by
\* document id and then line index (rows of one line come in any order)
RowOrders(rows) ==
    { s \in [1..Cardinality(rows) -> rows] :
        /\ \A i, j \in DOMAIN s : i < j => s[i] # s[j]
        /\ \A i, j \in DOMAIN s : i < j =>
             \/ StrLess(IdChars(s[i].docId), IdChars(s[j].docId))
             \/ s[i].docId = s[j].docId /\ s[i].lineIndex <= s[j].lineIndex }

\* _traverse_word_parents_fallback(nw, document_id)
traverse_word_parents_fallback(st, nw, document_id) ==
    LET docs == SelectSeq(list_documents(st), LAMBDA d : WantedDoc(document_id, d.id))
        all == Concat([i \in 1..Len(docs) |-> OccurrenceList(docs[i].id, docs[i].paragraph)])
        hits == SelectSeq(all, LAMBDA o : o.word = nw)
    IN  [i \in DOMAIN hits |-> ParentEntry(hits[i])]

----------------------------------------------------------------------------
(* Values of the system variables while a pure function is under test *)

EmptyGraph == [docs |-> {}, paras |-> {}, lines |-> {}, words |-> {}, rels |-> {}]
NoResp == [op |-> "none", status |-> 0, exc |-> "", doc |-> "", body |-> <<>>]
NoCall == [fn |-> "none"]

SystemIdle ==
    /\ store = <<>>
    /\ graph = EmptyGraph
    /\ neo4jUp = FALSE
    /\ driver = "none"
    /\ initialized = FALSE
    /\ running = FALSE
    /\ resp = NoResp
    /\ nops = 0
    /\ thr = <<>>

SystemUnchanged ==
    UNCHANGED <<store, graph, neo4jUp, driver, initialized, running, resp, nops, thr>>

SeqsUpTo(S, n) == UNION {[1..k -> S] : k \in 0..n}

----------------------------------------------------------------------------
(* The running service: one handler call at a time (main.py, rebuild.py)   *)

DocIds == {"A", "B", "C"}
Levels == {1, 2, 3}
FailPoints == {0, 5}    \* no statement fails; the one after the first CREATE (l:Line)

InitStores ==
    { [d \in {"A", "B"} |-> IF d = "A" THEN <<"a", " ", "b", "\n", "b">> ELSE <<"b", " ", "a">>],
      [d \in {"A", "B"} |-> IF d = "A" THEN <<"A", " ", " ", "a", "\n", "\n", "\t", "b">>
                            ELSE <<"a", "\n", "b", " ", "b">>],
      [d \in {"A", "B", "C"} |-> IF d = "A" THEN <<"a">>
                                 ELSE IF d = "B" THEN <<"a", " ", "b">>
                                 ELSE <<"b", "\n", "a">>] }
NewParagraphs == { <<"a", " ", "B">>, <<>> }
Values == { <<"b">> }
Positions == {0, 1}
QueryWords == { <<"a">>, <<"B", " ">> }

Request(kind, level, parentIndex, lineIndex, position, value, fromIndex, toIndex) ==
    [kind |-> kind, level |-> level, parentIndex |-> parentIndex, lineIndex |-> lineIndex,
     position |-> position, value |-> value, fromIndex |-> fromIndex, toIndex |-> toIndex]

\* the addressing fields a level reads: none at level 1, parentIndex (the
\* line) at level 2, lineIndex and parentIndex (the word) at level 3
Addressing(level, parents, lines) ==
    IF level = 1 THEN {<< <<>>, <<>> >>}
    ELSE IF level = 2 THEN {<<p, <<>> >> : p \in parents}
    ELSE parents \X lines

Requests(levels, parents, lines, positions, values) ==
    UNION { { Request("insert", l, a[1], a[2], pos, v, 0, 0)
                : a \in Addressing(l, parents, lines), pos \in positions, v \in values }
            \cup { Request("delete", l, a[1], a[2], pos, <<>>, 0, 0)
                : a \in Addressing(l, parents, lines), pos \in positions }
            \cup { Request("reorder", l, a[1], a[2], 0, <<>>, ft[1], ft[2])
                : a \in Addressing(l, parents, lines),
                  ft \in {x \in positions \X positions : x[1] # x[2]} }
          : l \in levels }

SysRequests ==
    Requests(Levels, {<<i>> : i \in Positions}, {<<0>>}, Positions, Values)

Init ==
    /\ store \in InitStores
    /\ graph = EmptyGraph
    /\ neo4jUp \in BOOLEAN
    /\ driver = "none"
    /\ initialized = FALSE
    /\ running = FALSE
    /\ resp = NoResp
    /\ nops = 0
    /\ thr = <<>>
    /\ call = NoCall

\* _get_driver(): the cached driver, or one connection attempt
get_driver == IF initialized THEN driver ELSE IF neo4jUp THEN "conn" ELSE "none"

\* where a sequence of session.run calls may fail: anywhere while the
\* server answers, at the first call when it does not
FailChoices == IF neo4jUp THEN FailPoints ELSE {1}

\* index_document(doc_id, paragraph) as the handlers call it
IndexCall(g, drv, doc_id, paragraph, failAt) ==
    IF drv = "none" THEN [graph |-> g, exc |-> ""]
    ELSE index_document(g, doc_id, paragraph, failAt)

\* for doc in docs: index_document(...), each in its own try; plan gives
\* the failing statement of each document.  The graph, the number indexed
\* and the ids that raised, after the first n documents.
RECURSIVE IndexAll(_, _, _, _, _)
IndexAll(g, drv, docs, plan, n) ==
    IF n = 0 THEN [graph |-> g, indexed |-> 0, errors |-> <<>>]
    ELSE LET before == IndexAll(g, drv, docs, plan, n - 1)
             r == IndexCall(before.graph, drv, docs[n].id, docs[n].paragraph, plan[docs[n].id])
         IN  [graph |-> r.graph,
              indexed |-> IF r.exc = "" THEN before.indexed + 1 ELSE before.indexed,
              errors |-> IF r.exc = "" THEN before.errors
                         ELSE Append(before.errors, docs[n].id)]

\* the loop of rebuild_full_graph over docs, on the cleared graph
rebuild_index_abort(g, docs, plan) ==
    LET failed == {n \in 1..Len(docs) : plan[docs[n].id] \in 1..Len(IndexStatements(docs[n].paragraph))}
    IN  IF failed = {} THEN IndexAll(g, "conn", docs, plan, Len(docs))
        ELSE IndexAll(g, "conn", docs, plan, Min(failed))

rebuild_index(g, docs, plan) == IndexAll(g, "conn", docs, plan, Len(docs))

Plans(st, drv) == IF drv = "none" THEN {[d \in DOMAIN st |-> 0]} ELSE [DOMAIN st -> FailChoices]

\* what the caller gets: the HTTP status, the exception behind a 500, the
\* document the request named, the body
Reply(op, status, exc, doc, body) ==
    [op |-> op, status |-> status, exc |-> exc, doc |-> doc, body |-> body]

Called == running /\ nops < MaxOps /\ nops' = nops + 1

\* the process starts, or is restarted: startup_index does reset_driver(),
\* then indexes every document, swallowing every exception
Startup ==
    /\ nops < MaxOps
    /\ nops' = nops + 1
    /\ running' = TRUE
    /\ LET drv == IF neo4jUp THEN "conn" ELSE "none"
       IN  /\ driver' = drv
           /\ initialized' = TRUE
           /\ \E plan \in Plans(store, drv) :
                graph' = IndexAll(graph, drv, list_documents(store), plan,
                                  Len(list_documents(store))).graph
    /\ resp' = Reply("startup", 0, "", "", <<>>)
    /\ UNCHANGED <<store, neo4jUp, thr, call>>

\* POST /api/documents
CreateDoc ==
    /\ Called
    /\ \E id \in DocIds, paragraph \in NewParagraphs :
         IF id \in DOMAIN store
         THEN /\ resp' = Reply("create", 409, "", id, <<>>)
              /\ UNCHANGED <<store, graph, driver, initialized>>
         ELSE /\ store' = save_document(store, id, paragraph)
              /\ driver' = get_driver
              /\ initialized' = TRUE
              /\ \E failAt \in IF get_driver = "none" THEN {0} ELSE FailChoices :
                   LET r == IndexCall(graph, get_driver, id, paragraph, failAt)
                   IN  /\ graph' = r.graph
                       /\ resp' = Reply("create", IF r.exc = "" THEN 200 ELSE 500, r.exc, id, paragraph)
    /\ UNCHANGED <<neo4jUp, running, thr, call>>

\* DELETE /api/documents/{doc_id}: the graph clean-up is in a try
DeleteDoc ==
    /\ Called
    /\ \E id \in DocIds :
         IF id \notin DOMAIN store
         THEN /\ resp' = Reply("delete_doc", 404, "", id, <<>>)
              /\ UNCHANGED <<store, graph, driver, initialized>>
         ELSE /\ store' = delete_document(store, id)
              /\ driver' = get_driver
              /\ initialized' = TRUE
              /\ \E failAt \in IF get_driver = "none" THEN {0} ELSE (FailChoices \cap {0, 1, 2}) :
                   graph' = IF get_driver = "none" THEN graph
                            ELSE delete_document_graph(graph, id, failAt).graph
              /\ resp' = Reply("delete_doc", 200, "", id, <<>>)
    /\ UNCHANGED <<neo4jUp, running, thr, call>>

\* POST /api/mutate/insert, /delete, /reorder with body req for document
\* id: load, edit, save, index
MutateOne(id, req) ==
    IF id \notin DOMAIN store
    THEN /\ resp' = Reply(req.kind, 404, "", id, <<>>)
         /\ UNCHANGED <<store, graph, driver, initialized>>
    ELSE LET m == mutate_paragraph(store[id], req)
         IN  IF m.status # 200
             THEN /\ resp' = Reply(req.kind, m.status, m.exc, id, <<>>)
                  /\ UNCHANGED <<store, graph, driver, initialized>>
             ELSE /\ store' = save_document(store, id, m.paragraph)
                  /\ driver' = get_driver
                  /\ initialized' = TRUE
                  /\ \E failAt \in IF get_driver = "none" THEN {0} ELSE FailChoices :
                       LET r == IndexCall(graph, get_driver, id, m.paragraph, failAt)
                       IN  /\ graph' = r.graph
                           /\ resp' = Reply(req.kind, IF r.exc = "" THEN 200 ELSE 500,
                                            r.exc, id, m.paragraph)

Mutate(reqs) ==
    /\ Called
    /\ \E id \in DocIds, req \in reqs : MutateOne(id, req)
    /\ UNCHANGED <<neo4jUp, running, thr, call>>

MutateInsert == Mutate({r \in SysRequests : r.kind = "insert"})
MutateDelete == Mutate({r \in SysRequests : r.kind = "delete"})
MutateReorder == Mutate({r \in SysRequests : r.kind = "reorder"})

\* POST /api/graph/rebuild: rebuild_full_graph()
GraphRebuild ==
    /\ Called
    /\ driver' = get_driver
    /\ initialized' = TRUE
    /\ IF get_driver = "none"
       THEN /\ resp' = Reply("rebuild", 200, "", "",
                             [status |-> "skipped", documents |-> 0, errors |-> <<>>, plan |-> <<>>])
            /\ graph' = graph
       ELSE IF ~neo4jUp
            THEN /\ resp' = Reply("rebuild", 500, "ServiceUnavailable", "", <<>>)
                 /\ graph' = graph
            ELSE \E plan \in Plans(store, "conn") :
                   LET docs == list_documents(store)
                       r == rebuild_index(EmptyGraph, docs, plan)
                   IN  /\ graph' = r.graph
                       /\ resp' = Reply("rebuild", 200, "", "",
                                        [status |-> "rebuilt", documents |-> r.indexed,
                                         errors |-> r.errors, plan |-> plan])
    /\ UNCHANGED <<store, neo4jUp, running, thr, call>>

\* GET /api/crosslinks: find_common_words()
GetCrosslinks ==
    /\ Called
    /\ driver' = get_driver
    /\ initialized' = TRUE
    /\ resp' = IF get_driver = "none"
               THEN Reply("crosslinks", 200, "", "", find_common_words_fallback(store))
               ELSE IF ~neo4jUp
               THEN Reply("crosslinks", 500, "ServiceUnavailable", "", <<>>)
               ELSE Reply("crosslinks", 200, "", "", find_common_words(graph))
    /\ UNCHANGED <<store, graph, neo4jUp, running, thr, call>>

\* POST /api/crosslinks/traverse and /api/graph/word/parents:
\* traverse_word_parents(word, documentId), 404 when nothing is found
CrosslinkTraverse ==
    /\ Called
    /\ driver' = get_driver
    /\ initialized' = TRUE
    /\ \E word \in QueryWords, document_id \in {<<>>} \cup {<<d>> : d \in DocIds} :
         IF get_driver = "none"
         THEN LET rows == traverse_word_parents_fallback(store, normalize(word), document_id)
              IN  resp' = Reply("traverse", IF rows = <<>> THEN 404 ELSE 200, "", "", rows)
         ELSE IF ~neo4jUp
         THEN resp' = Reply("traverse", 500, "ServiceUnavailable", "", <<>>)
         ELSE \E rows \in RowOrders(TraverseRows(graph, word, document_id)) :
                resp' = Reply("traverse", IF rows = <<>> THEN 404 ELSE 200, "", "", rows)
    /\ UNCHANGED <<store, graph, neo4jUp, running, thr, call>>

\* the Neo4j server stops answering, or answers again; its data stays
Neo4jDown ==
    /\ neo4jUp
    /\ neo4jUp' = FALSE
    /\ UNCHANGED <<store, graph, driver, initialized, running, resp, nops, thr, call>>

Neo4jUp ==
    /\ ~neo4jUp
    /\ neo4jUp' = TRUE
    /\ UNCHANGED <<store, graph, driver, initialized, running, resp, nops, thr, call>>

Next ==
    \/ Startup
    \/ CreateDoc
    \/ DeleteDoc
    \/ MutateInsert
    \/ MutateDelete
    \/ MutateReorder
    \/ GraphRebuild
    \/ GetCrosslinks
    \/ CrosslinkTraverse
    \/ Neo4jDown
    \/ Neo4jUp

Spec == Init /\ [][Next]_vars

----------------------------------------------------------------------------
(* Properties of the running service *)

\* what a caller compares of a findCommonWords result: the words and, for
\* each word, the document ids
WordDocView(entries) ==
    {[word |-> e.word, documents |-> e.documents] : e \in Range(entries)}

\* what the graph holds for one document: its node, its lines, its word paths
DocView(g, d) ==
    [present |-> d \in g.docs,
     paras |-> {p.text : p \in {x \in g.paras : x.docId = d}},
     lines |-> {[index |-> l.index, text |-> l.text] : l \in {x \in g.lines : x.docId = d}},
     rows |-> {o \in GraphPaths(g) : o.docId = d}]

\* the complete derivation of a paragraph, as index_document leaves it
Derived(d, paragraph) ==
    [present |-> TRUE,
     paras |-> {paragraph},
     lines |-> {[index |-> i - 1, text |-> IndexLines(paragraph)[i]]
                  : i \in 1..Len(IndexLines(paragraph))},
     rows |-> Range(OccurrenceList(d, paragraph))]

RebuiltOk ==
    /\ resp.op = "rebuild"
    /\ resp.status = 200
    /\ resp.body.status = "rebuilt"

\* C1: once rebuild_full_graph has completed on an answering backend (no
\* document failed), the graph query and the fallback give the same words
\* and, for each word, the same document ids.
C1_RebuildEquivalence ==
    (RebuiltOk /\ resp.body.errors = <<>>)
        => WordDocView(find_common_words(graph))
             = WordDocView(find_common_words_fallback(store))

C1_Witness ==
    /\ RebuiltOk
    /\ resp.body.errors = <<>>
    /\ Cardinality(WordDocView(find_common_words(graph))) >= 2

MutatedOk ==
    /\ resp.op \in {"insert", "delete", "reorder"}
    /\ resp.status = 200
    /\ driver = "conn"

\* C2: after a successful insert, delete or reorder of document D handled
\* on a connected backend, the graph holds for D exactly what D's saved
\* text derives (lines and word occurrences, nothing of the previous text),
\* and a common-word entry lists D only for a word of the saved text.
C2_GraphHoldsSavedText ==
    MutatedOk =>
        /\ DocView(graph, resp.doc) = Derived(resp.doc, store[resp.doc])
        /\ \A e \in Range(find_common_words(graph)) :
              resp.doc \in e.documents
                 => e.word \in {o.word : o \in Range(OccurrenceList(resp.doc, store[resp.doc]))}

C2_Witness ==
    /\ MutatedOk
    /\ resp.op = "delete"
    /\ resp.body = store[resp.doc]
    /\ DocView(graph, resp.doc).rows # {}
    /\ \E d \in graph.docs \ {resp.doc} : DocView(graph, d).rows # {}

\* C4: in every graph state the service reaches, and for every document id
\* and text, index_document called twice in a row leaves the graph as one
\* call leaves it.
C4_IndexTwice ==
    \A d \in DocIds : \A t \in NewParagraphs \cup Range(store) :
        LET once == index_document(graph, d, t, 0).graph
        IN  index_document(once, d, t, 0).graph = once

IndexingOps == {"create", "insert", "delete", "reorder"}

\* C6: when index_document raises part-way in a create or a mutation of
\* document D, the graph shows D as before the call or with the complete
\* derivation of the saved text, never with part of its lines or words.
C6_AtomicReindex ==
    [][ (resp'.op \in IndexingOps /\ resp'.exc = "ServiceUnavailable")
          => \/ DocView(graph', resp'.doc) = DocView(graph, resp'.doc)
             \/ DocView(graph', resp'.doc) = Derived(resp'.doc, store'[resp'.doc]) ]_vars

\* what the graph-backed queries return of document Y: its rows of
\* traverse_word_parents for word w, its occurrences in an entry of
\* find_common_words
TraversedOf(g, w, Y) == TraverseRows(g, w, <<Y>>)
OccurrencesOf(e, Y) == {o \in e.occurrences : o.docId = Y}
GraphWords(g) == {o.word : o \in GraphPaths(g)}

\* C22: a completed index_document(X, text) or delete_document_graph(X)
\* changes graph structures of X only: for every other document Y, also one
\* sharing words with X, the graph-backed traverse_word_parents returns the
\* same occurrences of Y for every word before and after, and so does
\* find_common_words for every word it lists before and after.
C22_OnlyOwnStructures ==
    [][ (resp'.op \in IndexingOps \cup {"delete_doc"} /\ resp'.status = 200
           /\ driver' = "conn" /\ neo4jUp)
          => \A Y \in DocIds \ {resp'.doc} :
               /\ \A w \in GraphWords(graph) \cup GraphWords(graph') :
                     TraversedOf(graph', w, Y) = TraversedOf(graph, w, Y)
               /\ \A e \in Range(find_common_words(graph)),
                       f \in Range(find_common_words(graph')) :
                     e.word = f.word => OccurrencesOf(f, Y) = OccurrencesOf(e, Y) ]_vars

\* C7: a failure of the graph backend never reaches the caller of an
\* indexing operation or of a cross-link query as an error.
C7_FailOpen ==
    resp.op \in IndexingOps \cup {"crosslinks", "traverse"}
        => resp.exc # "ServiceUnavailable"

\* the documents whose index_document raises under a plan
Failing(docs, plan) ==
    SelectSeq(docs, LAMBDA doc : plan[doc.id] \in 1..Len(IndexStatements(doc.paragraph)))

\* C8: a rebuild that got past clearing the graph returns, whatever
\* documents fail to index: the error records are the failing documents in
\* store order, every other document is completely indexed, and the
\* success count and the error records add up to the number of documents.
C8_RebuildTolerant ==
    RebuiltOk =>
        LET docs == list_documents(store)
            failing == Failing(docs, resp.body.plan)
        IN  /\ resp.body.errors = [i \in DOMAIN failing |-> failing[i].id]
            /\ resp.body.documents + Len(resp.body.errors) = Len(docs)
            /\ \A i \in DOMAIN docs :
                  docs[i].id \notin Range(resp.body.errors)
                     => DocView(graph, docs[i].id) = Derived(docs[i].id, docs[i].paragraph)

C8_Witness ==
    /\ RebuiltOk
    /\ Len(list_documents(store)) = 3
    /\ resp.body.errors = <<list_documents(store)[1].id>>
    /\ resp.body.documents = 2

----------------------------------------------------------------------------
(* Two mutation requests in flight: the handlers are plain def functions,   *)
(* which the server runs on worker threads.  A handler is load_document +   *)
(* edit, then save_document (the only part under storage._lock), then the   *)
(* session.run calls of index_document, one at a time.                      *)

Threads == {1, 2}
ConcDocs == {"A", "B"}
ConcStore == [d \in ConcDocs |-> IF d = "A" THEN <<"a", " ", "b", "\n", "b">> ELSE <<"b", " ", "a">>]
ConcRequests == {r \in SysRequests : r.level = 1 /\ r.kind \in {"insert", "delete"}}

IdleThread ==
    [pc |-> "idle", doc |-> "", req |-> <<>>, paragraph |-> <<>>, k |-> 0, status |-> 0]

InitConc ==
    /\ store = ConcStore
    /\ graph = IndexAll(EmptyGraph, "conn", list_documents(ConcStore),
                        [d \in ConcDocs |-> 0], Len(list_documents(ConcStore))).graph
    /\ neo4jUp = TRUE
    /\ driver = "conn"
    /\ initialized = TRUE
    /\ running = TRUE
    /\ resp = NoResp
    /\ nops = 0
    /\ thr = [t \in Threads |-> IdleThread]
    /\ call = NoCall

\* doc = load_document(req.documentId) and the edit of doc["paragraph"]
T_Load(t) ==
    /\ thr[t].pc = "idle"
    /\ \E id \in ConcDocs, req \in ConcRequests :
         IF id \notin DOMAIN store
         THEN thr' = [thr EXCEPT ![t] = [@ EXCEPT !.pc = "done", !.doc = id, !.req = req,
                                                  !.status = 404]]
         ELSE LET m == mutate_paragraph(store[id], req)
              IN  thr' = [thr EXCEPT ![t] =
                            [@ EXCEPT !.pc = IF m.status = 200 THEN "edited" ELSE "done",
                                      !.doc = id, !.req = req,
                                      !.paragraph = m.paragraph, !.status = m.status]]
    /\ UNCHANGED <<store, graph, neo4jUp, driver, initialized, running, resp, nops, call>>

\* save_document(req.documentId, doc)
T_Save(t) ==
    /\ thr[t].pc = "edited"
    /\ store' = save_document(store, thr[t].doc, thr[t].paragraph)
    /\ thr' = [thr EXCEPT ![t] = [@ EXCEPT !.pc = "indexing", !.k = 0]]
    /\ UNCHANGED <<graph, neo4jUp, driver, initialized, running, resp, nops, call>>

\* the next session.run of index_document(req.documentId, doc["paragraph"]);
\* after the last one the handler returns
T_Index(t) ==
    /\ thr[t].pc = "indexing"
    /\ LET sts == IndexStatements(thr[t].paragraph)
           last == thr[t].k + 1 = Len(sts)
       IN  /\ graph' = RunStatement(graph, thr[t].doc, sts[thr[t].k + 1])
           /\ thr' = [thr EXCEPT ![t] = [@ EXCEPT !.k = @ + 1,
                                                  !.pc = IF last THEN "done" ELSE "indexing"]]
    /\ UNCHANGED <<store, neo4jUp, driver, initialized, running, resp, nops, call>>

NextConc == \E t \in Threads : T_Load(t) \/ T_Save(t) \/ T_Index(t)

SpecConc == InitConc /\ [][NextConc]_vars

\* the texts that applying request r and then request s to text leaves,
\* when both succeed
SerialResults(text, r, s) ==
    LET first == mutate_paragraph(text, r)
        second == mutate_paragraph(first.paragraph, s)
    IN  IF first.status = 200 /\ second.status = 200 THEN {second.paragraph} ELSE {}

\* C3: when two mutations of the same document have both returned
\* successfully, the stored text is what applying the two edits one after
\* the other, in one order or the other, gives.
C3_MutationsSerialized ==
    (/\ \A t \in Threads : thr[t].pc = "done" /\ thr[t].status = 200
     /\ thr[1].doc = thr[2].doc)
        => store[thr[1].doc] \in
              SerialResults(ConcStore[thr[1].doc], thr[1].req, thr[2].req)
              \cup SerialResults(ConcStore[thr[1].doc], thr[2].req, thr[1].req)

----------------------------------------------------------------------------
(* _find_common_words_fallback under test, over corpora *)

MaxDocLen == 3

CorpusAlphabet == {"a", "A", "b", " ", "\n", "\t"}
OtherTexts == { <<"a">>, <<"b", " ", "a">>, <<"\t", "A", "\n", "b">> }
ThirdTexts == { <<"b", "\n", "b">> }

ExampleA ==
    <<"t", "h", "e", " ", "c", "a", "t", " ", "s", "a", "t", 
      "\n", "t", "h", "e", " ", "d", "o", "g", " ", "r", "a", 
      "n">>
ExampleB ==
    <<"t", "h", "e", " ", "c", "a", "t", " ", "r", "a", "n", " ", 
      "f", "a", "s", "t">>
ExampleCorpus == [d \in {"A", "B"} |-> IF d = "A" THEN ExampleA ELSE ExampleB]

Corpora ==
    {ExampleCorpus}
    \cup { [d \in {"A", "B"} |-> IF d = "A" THEN a ELSE b]
             : a \in SeqsUpTo(CorpusAlphabet, MaxDocLen), b \in OtherTexts }
    \cup { [d \in {"A", "B", "C"} |-> IF d = "A" THEN a ELSE IF d = "B" THEN bc[1] ELSE bc[2]]
             : a \in SeqsUpTo(CorpusAlphabet, MaxDocLen), bc \in OtherTexts \X ThirdTexts }

InitCommon ==
    /\ store \in Corpora
    /\ graph = EmptyGraph
    /\ neo4jUp = FALSE
    /\ driver = "none"
    /\ initialized = FALSE
    /\ running = FALSE
    /\ resp = NoResp
    /\ nops = 0
    /\ thr = <<>>
    /\ call = [fn |-> "find_common_words", done |-> FALSE, out |-> <<>>]

FindCommonFallback ==
    /\ call.fn = "find_common_words"
    /\ ~call.done
    /\ call' = [call EXCEPT !.done = TRUE, !.out = find_common_words_fallback(store)]
    /\ SystemUnchanged

NextCommon == FindCommonFallback

SpecCommon == InitCommon /\ [][NextCommon]_vars

\* What "word w occurs in a document" is, stated on the text itself: some
\* maximal run of characters free of the space and the line break has w as
\* its trimmed, lower-cased form.
Separators == {" ", "\n"}
IsRun(text, i, j) ==
    /\ i <= j
    /\ \A k \in i..j : text[k] \notin Separators
    /\ i = 1 \/ text[i - 1] \in Separators
    /\ j = Len(text) \/ text[j + 1] \in Separators
WordsIn(text) ==
    { normalize(SubSeq(text, p[1], p[2]))
        : p \in {q \in (1..Len(text)) \X (1..Len(text)) : IsRun(text, q[1], q[2])} } \ {<<>>}
DocsWith(st, w) == {d \in DOMAIN st : w \in WordsIn(st[d])}

THE == <<"t", "h", "e">>
CAT == <<"c", "a", "t">>
DOG == <<"d", "o", "g">>

\* C5: the fallback findCommonWords has an entry for a word exactly when
\* the word, trimmed and lower-cased, occurs in at least two distinct
\* documents of the store, one entry per word, listing those documents; a
\* word of one document only has none, however often it occurs there.  On
\* the corpus A = "the cat sat\nthe dog ran", B = "the cat ran fast":
\* "the" and "cat" with {A, B}, no "dog".
C5_EntryIffTwoDocuments ==
    call.done =>
        LET out == call.out
            all == UNION {WordsIn(store[d]) : d \in DOMAIN store}
        IN  /\ \A w \in all :
                  (\E i \in DOMAIN out : out[i].word = w) <=> Cardinality(DocsWith(store, w)) >= 2
            /\ \A i \in DOMAIN out :
                  /\ out[i].word \in all
                  /\ out[i].documents = DocsWith(store, out[i].word)
            /\ \A i, j \in DOMAIN out : i # j => out[i].word # out[j].word
            /\ store = ExampleCorpus =>
                  /\ [word |-> THE, documents |-> {"A", "B"}] \in WordDocView(out)
                  /\ [word |-> CAT, documents |-> {"A", "B"}] \in WordDocView(out)
                  /\ \A i \in DOMAIN out : out[i].word # DOG

\* the example corpus, queried: "the" (twice in A) and "cat" are entries
C5_Witness ==
    /\ call.done
    /\ store = ExampleCorpus
    /\ {THE, CAT} \subseteq {e.word : e \in Range(call.out)}
    /\ DOG \in WordsIn(store["A"])

----------------------------------------------------------------------------
(* One mutation request to the service, over a range of paragraphs and of   *)
(* request bodies; call keeps the request and the files as they were.       *)

MaxParaLen == 4

EditAlphabet == {"a", "b", " ", "\n"}
EditTexts == SeqsUpTo(EditAlphabet, MaxParaLen)
EditIndices == {<<>>, <<0>>, <<1>>}
EditPositions == (0 - 1)..1
\* req.value is any str: a word, a line break, a space
EditValues == Values \cup {NL, SP}
EditRequests == Requests(Levels, EditIndices, EditIndices, EditPositions, EditValues)

InitEdit ==
    /\ store \in {[d \in {"A"} |-> t] : t \in EditTexts}
    /\ graph = EmptyGraph
    /\ neo4jUp = FALSE
    /\ driver = "none"
    /\ initialized = TRUE
    /\ running = TRUE
    /\ resp = NoResp
    /\ nops = MaxOps - 1
    /\ thr = <<>>
    /\ call = NoCall

EditMutate ==
    /\ Called
    /\ \E id \in {"A", "B"}, req \in EditRequests :
         /\ MutateOne(id, req)
         /\ call' = [fn |-> "mutate", id |-> id, req |-> req, before |-> store]
    /\ UNCHANGED <<neo4jUp, running, thr>>

NextEdit == EditMutate

SpecEdit == InitEdit /\ [][NextEdit]_vars

\* a request was handled for a document that exists
Edited(kinds) ==
    /\ call.fn = "mutate"
    /\ call.req.kind \in kinds
    /\ call.id \in DOMAIN call.before

\* the request names the indices its level needs: none at level 1, the line
\* (parentIndex) at level 2, the line (lineIndex) and the word (parentIndex)
\* at level 3
ExplicitIndices(req) ==
    CASE req.level = 1 -> TRUE
      [] req.level = 2 -> req.parentIndex # <<>>
      [] OTHER -> req.lineIndex # <<>> /\ req.parentIndex # <<>>

\* the segment lists, one for each element the request addresses: the
\* lines at level 1, the words of the line at level 2, the characters of
\* the word at level 3; none when the line or the word does not exist
TargetSegments(paragraph, req) ==
    LET lines == PySplit(paragraph, NL)
        li == IF req.level = 2 THEN req.parentIndex[1] ELSE req.lineIndex[1]
        words == PySplit(lines[li + 1], SP)
    IN  CASE req.level = 1 -> {lines}
          [] req.level = 2 -> IF InRange(li, Len(lines)) THEN {words} ELSE {}
          [] OTHER -> IF InRange(li, Len(lines)) /\ InRange(req.parentIndex[1], Len(words))
                      THEN {PyList(words[req.parentIndex[1] + 1])}
                      ELSE {}

\* the position (for a reorder: one of the two indices) is outside the
\* segment list of an existing target
OutOfRange(paragraph, req) ==
    /\ ExplicitIndices(req)
    /\ \E segs \in TargetSegments(paragraph, req) :
         IF req.kind = "reorder"
         THEN ~InRange(req.fromIndex, Len(segs)) \/ ~InRange(req.toIndex, Len(segs))
         ELSE IF req.kind = "insert"
         THEN req.position < 0 \/ req.position > Len(segs)
         ELSE ~InRange(req.position, Len(segs))

\* C15: a delete whose position is out of range is ignored at levels 1, 2
\* and 3: the caller gets no error and the stored text is as before.
C15_DeleteIgnored ==
    (Edited({"delete"}) /\ OutOfRange(call.before[call.id], call.req))
        => resp.status = 200 /\ store = call.before

\* C16: an insert whose position is out of range, and a reorder one of
\* whose indices is out of range, fails: the caller gets an error and the
\* stored text is as before.
C16_OutOfRangeFails ==
    (Edited({"insert", "reorder"}) /\ OutOfRange(call.before[call.id], call.req))
        => resp.status # 200 /\ store = call.before

\* the words of line li of a paragraph
LineWords(paragraph, li) == PySplit(PySplit(paragraph, NL)[li + 1], SP)

\* C17: after a successful level-3 delete on line li, word wi (both given)
\* that took the last character of the word, the word is gone from the
\* line, and line li holds no empty word, whatever it looked like before:
\* it is empty or none of its space-separated tokens is.
C17_NoEmptyWordLeft ==
    (/\ Edited({"delete"})
     /\ call.req.level = 3
     /\ ExplicitIndices(call.req)
     /\ resp.status = 200
     /\ call.req.position = 0
     /\ Len(LineWords(call.before[call.id], call.req.lineIndex[1])[call.req.parentIndex[1] + 1]) = 1)
        => LET li == call.req.lineIndex[1]
               wi == call.req.parentIndex[1]
               old == LineWords(call.before[call.id], li)
               new == LineWords(store[call.id], li)
           IN  /\ PyJoin(new, SP) = PyJoin(ListPop(old, wi), SP)
               /\ new = << <<>> >> \/ \A k \in DOMAIN new : new[k] # <<>>

\* C18: a level-3 insert, delete or reorder that leaves out the line index
\* or the word index is rejected with an error and changes nothing.
C18_Level3NeedsBothIndices ==
    (/\ Edited({"insert", "delete", "reorder"})
     /\ call.req.level = 3
     /\ ~ExplicitIndices(call.req))
        => resp.status # 200 /\ store = call.before

\* What build_full_tree shows of a paragraph at depth 3, read off its
\* nodes: for the line labelled with index i, the words labelled (i, j), each
\* as the characters labelled (i, j, k)
TreeView(paragraph) ==
    LET nodes == Range(build_full_tree(paragraph, NL, SP, 3).nodes)
        lineNodes == {n \in nodes : n.nodeLevel = 1}
        wordNodes(li) == {n \in nodes : n.nodeLevel = 2 /\ n.lineIndex = li}
        charNodes(li, wi) == {n \in nodes : n.nodeLevel = 3 /\ n.lineIndex = li /\ n.wordIndex = wi}
        labelAt(S, i) == (CHOOSE n \in S : n.index = i).label
    IN  [l \in 1..Cardinality(lineNodes) |->
           [label |-> labelAt(lineNodes, l - 1),
            words |-> [w \in 1..Cardinality(wordNodes(l - 1)) |->
                         [c \in 1..Cardinality(charNodes(l - 1, w - 1)) |->
                            labelAt(charNodes(l - 1, w - 1), c - 1)[1]]]]]
TreeWords(paragraph) == [l \in DOMAIN TreeView(paragraph) |-> TreeView(paragraph)[l].words]

\* C23: indices mean the same in the tree and in mutations, shown on
\* deletes: a level-1 delete at i, where the tree of the text has a line i,
\* succeeds and leaves the tree without that line and otherwise as it was;
\* a level-2 delete at (line i, word j), where the tree has that word and
\* another one in the line, leaves the tree without that word; a level-3
\* delete at (line i, word j, character k), where the tree has that
\* character and another one in the word, leaves the tree without it.
C23_TreeIndicesAreMutationIndices ==
    (/\ Edited({"delete"})
     /\ ExplicitIndices(call.req)
     /\ call.req.position >= 0)
        => LET before == call.before[call.id]
               after == store[call.id]
               req == call.req
               view == TreeView(before)
               words == TreeWords(before)
               i == IF req.level = 2 THEN req.parentIndex[1] ELSE req.lineIndex[1]
               j == IF req.level = 2 THEN req.position ELSE req.parentIndex[1]
               k == req.position
           IN  CASE req.level = 1 ->
                      k < Len(view)
                        => resp.status = 200 /\ TreeView(after) = ListPop(view, k)
                 [] req.level = 2 ->
                      (i < Len(words) /\ j < Len(words[i + 1]) /\ Len(words[i + 1]) >= 2)
                        => /\ resp.status = 200
                           /\ TreeWords(after) = [words EXCEPT ![i + 1] = ListPop(@, j)]
                 [] OTHER ->
                      (/\ i < Len(words) /\ j < Len(words[i + 1])
                       /\ k < Len(words[i + 1][j + 1]) /\ Len(words[i + 1][j + 1]) >= 2)
                        => /\ resp.status = 200
                           /\ TreeWords(after)
                                = [words EXCEPT ![i + 1][j + 1] = ListPop(@, k)]

\* C24: a successful level-2 or level-3 mutation addressed to line li
\* leaves the number of lines of the document and the text of every other
\* line as they were, whatever value it inserts.
C24_OtherLinesUnchanged ==
    (/\ Edited({"insert", "delete", "reorder"})
     /\ call.req.level \in {2, 3}
     /\ ExplicitIndices(call.req)
     /\ resp.status = 200)
        => LET before == PySplit(call.before[call.id], NL)
               after == PySplit(store[call.id], NL)
               li == IF call.req.level = 2 THEN call.req.parentIndex[1]
                     ELSE call.req.lineIndex[1]
           IN  /\ Len(after) = Len(before)
               /\ \A l \in DOMAIN before : l # li + 1 => after[l] = before[l]

----------------------------------------------------------------------------
(* insert_at, delete_at and reorder of mutate.py under test *)

MutAlphabet == {"a", "b", " "}
MutTexts == SeqsUpTo(MutAlphabet, MaxTextLen)
MutDelimiters == SeqsUpTo(MutAlphabet, 1) \cup {<<"a", "a">>}
MutValues == SeqsUpTo(MutAlphabet, MaxValueLen)
MutPositions == (0 - 1)..(MaxTextLen + 1)

MutCall(fn, text, delimiter, position, value, from_i, to_i) ==
    [fn |-> fn, text |-> text, delimiter |-> delimiter, position |-> position,
     value |-> value, from_i |-> from_i, to_i |-> to_i,
     done |-> FALSE, p |-> 0, out |-> <<>>, back |-> <<>>]

InitMutate ==
    /\ SystemIdle
    /\ \E t \in MutTexts, d \in MutDelimiters :
         \/ \E pos \in MutPositions, v \in MutValues :
              call = MutCall("insert_at", t, d, pos, v, 0, 0)
         \/ \E pos \in MutPositions :
              call = MutCall("delete_at", t, d, pos, <<>>, 0, 0)
         \/ \E f \in MutPositions, to \in MutPositions :
              call = MutCall("reorder", t, d, 0, <<>>, f, to)

\* insert_at, then delete_at at the position the value was put at
InsertThenDelete ==
    /\ call.fn = "insert_at"
    /\ ~call.done
    /\ LET p == Clamp(call.position, Len(m_split(call.text, call.delimiter)))
           out == insert_at(call.text, call.delimiter, call.position, call.value)
       IN  call' = [call EXCEPT !.done = TRUE, !.p = p, !.out = out,
                                !.back = delete_at(out, call.delimiter, p)]
    /\ SystemUnchanged

DeleteAt ==
    /\ call.fn = "delete_at"
    /\ ~call.done
    /\ call' = [call EXCEPT !.done = TRUE,
                            !.out = delete_at(call.text, call.delimiter, call.position)]
    /\ SystemUnchanged

Reorder ==
    /\ call.fn = "reorder"
    /\ ~call.done
    /\ call' = [call EXCEPT !.done = TRUE,
                            !.out = reorder(call.text, call.delimiter, call.from_i, call.to_i)]
    /\ SystemUnchanged

NextMutate == InsertThenDelete \/ DeleteAt \/ Reorder

SpecMutate == InitMutate /\ [][NextMutate]_vars

\* C11: for every text, delimiter, position and value (a value holding the
\* delimiter, an empty value and a value of several characters at the
\* character level included), deleting at the clamped position after the
\* insert gives the text back.
C11_InsertDeleteRoundTrip ==
    (call.fn = "insert_at" /\ call.done) => call.back = call.text

\* the list with the element at index f moved to index t (0-based), the
\* others keeping their order: stated index by index
MovedList(parts, f, t) ==
    [k \in 1..Len(parts) |->
       IF k = t + 1 THEN parts[f + 1]
       ELSE LET kk == IF k < t + 1 THEN k ELSE k - 1
            IN  parts[IF kk < f + 1 THEN kk ELSE kk + 1]]

CountOf(parts, x) == Cardinality({k \in DOMAIN parts : parts[k] = x})

ReorderDone == call.fn = "reorder" /\ call.done

\* C12: with both indices in [0, segment count) reorder returns the join
\* of the segment list in which the segment at from was taken out and put
\* back at index to of the shortened list: that segment is at index to,
\* every segment occurs as often as before; with an index out of bounds it
\* returns the text.
C12_ReorderMoves ==
    ReorderDone =>
        LET parts == m_split(call.text, call.delimiter)
            moved == MovedList(parts, call.from_i, call.to_i)
        IN  IF InRange(call.from_i, Len(parts)) /\ InRange(call.to_i, Len(parts))
            THEN /\ call.out = PyJoin(moved, call.delimiter)
                 /\ moved[call.to_i + 1] = parts[call.from_i + 1]
                 /\ \A k \in DOMAIN parts : CountOf(moved, parts[k]) = CountOf(parts, parts[k])
            ELSE call.out = call.text

\* a segment moved two places to the right, changing the text
C12_Witness ==
    /\ ReorderDone
    /\ call.from_i = 0
    /\ call.to_i = 2
    /\ Len(m_split(call.text, call.delimiter)) = 3
    /\ call.out # call.text

\* C13: for every text, delimiter and valid index i, reorder(text,
\* delimiter, i, i) returns the text, empty segments included.
C13_ReorderSameIndex ==
    (/\ ReorderDone
     /\ call.from_i = call.to_i
     /\ InRange(call.from_i, Len(m_split(call.text, call.delimiter))))
        => call.out = call.text

\* a text with a leading and a doubled delimiter, reordered at i = 1
C13_Witness ==
    /\ ReorderDone
    /\ call.text = <<" ", " ", "a">>
    /\ call.delimiter = <<" ">>
    /\ call.from_i = 1
    /\ call.to_i = 1
    /\ call.out = call.text

\* C14: delete_at with position < 0 or position >= segment count returns
\* the input text, character for character.
C14_DeleteOutOfRange ==
    (/\ call.fn = "delete_at"
     /\ call.done
     /\ ~InRange(call.position, Len(m_split(call.text, call.delimiter))))
        => call.out = call.text

\* a text of empty segments only, position one past the last segment
C14_Witness ==
    /\ call.fn = "delete_at"
    /\ call.done
    /\ call.text = <<" ", " ">>
    /\ call.delimiter = <<" ">>
    /\ call.position = 3
    /\ call.out = call.text

----------------------------------------------------------------------------
(* build_full_tree under test *)

MaxTreeLen == 4

TreeAlphabet == {"a", "b", " ", "\n"}
HelloWorld == <<"h", "e", "l", "l", "o", " ", "w", "o", "r", "l", "d">>
TreeTexts == SeqsUpTo(TreeAlphabet, MaxTreeLen) \cup {HelloWorld}
WordDelimiters == {SP, <<"b">>}
Depths == {1, 2, 3}

InitTree ==
    /\ SystemIdle
    /\ \E t \in TreeTexts, wd \in WordDelimiters, depth \in Depths :
         call = [fn |-> "build_full_tree", paragraph |-> t, line_delimiter |-> NL,
                 word_delimiter |-> wd, depth |-> depth, done |-> FALSE,
                 out |-> [nodes |-> <<>>, edges |-> <<>>]]

BuildFullTree ==
    /\ call.fn = "build_full_tree"
    /\ ~call.done
    /\ call' = [call EXCEPT !.done = TRUE,
                            !.out = build_full_tree(call.paragraph, call.line_delimiter,
                                                    call.word_delimiter, call.depth)]
    /\ SystemUnchanged

NextTree == BuildFullTree

SpecTree == InitTree /\ [][NextTree]_vars

\* the maximal runs of characters other than c in text, left to right:
\* the lines of a paragraph (c the line break), the words of a line
RunStarts(text, c) ==
    {i \in 1..Len(text) : text[i] # c /\ (i = 1 \/ text[i - 1] = c)}
RunFrom(text, c, i) ==
    SubSeq(text, i, CHOOSE j \in i..Len(text) :
                      /\ \A k \in i..j : text[k] # c
                      /\ j = Len(text) \/ text[j + 1] = c)
Runs(text, c) ==
    [k \in 1..Cardinality(RunStarts(text, c)) |->
       RunFrom(text, c, CHOOSE i \in RunStarts(text, c) :
                          Cardinality({x \in RunStarts(text, c) : x < i}) = k - 1)]

\* the parent of a node of the tree: the root for a line, the line for a
\* word, the word for a character
IsParent(parent, node) ==
    /\ parent.nodeLevel = node.nodeLevel - 1
    /\ node.nodeLevel = 2 => parent.index = node.lineIndex
    /\ node.nodeLevel = 3 => parent.index = node.wordIndex /\ parent.lineIndex = node.lineIndex

TreeBuilt == call.fn = "build_full_tree" /\ call.done /\ ~Blank(call.paragraph)

----------------------------------------------------------------------------
(* traverse_word_parents under test: on the started service, all documents  *)
(* indexed at startup and at most one of them indexed again since (what a   *)
(* mutation of it does), or started without a graph backend.                *)

TraverseCorpora ==
    InitStores
    \cup { [d \in {"a", "a-b"} |-> IF d = "a" THEN <<"a", " ", "b">> ELSE <<"b", "\n", "a">>] }
TraverseWords == QueryWords \cup {<<"b">>}

\* the graph after startup_index on an answering backend
StartupGraph(st) ==
    IndexAll(EmptyGraph, "conn", list_documents(st), [d \in DOMAIN st |-> 0],
             Len(list_documents(st))).graph

InitTraverse ==
    /\ store \in TraverseCorpora
    /\ neo4jUp \in BOOLEAN
    /\ driver = IF neo4jUp THEN "conn" ELSE "none"
    /\ \/ graph = IF neo4jUp THEN StartupGraph(store) ELSE EmptyGraph
       \/ \E d \in DOMAIN store :
            graph = IF neo4jUp THEN index_document(StartupGraph(store), d, store[d], 0).graph
                    ELSE EmptyGraph
    /\ initialized = TRUE
    /\ running = TRUE
    /\ resp = NoResp
    /\ nops = 0
    /\ thr = <<>>
    /\ \E word \in TraverseWords, document_id \in {<<>>} \cup {<<d>> : d \in DocIds \cup {"a"}} :
         call = [fn |-> "traverse_word_parents", word |-> word, document_id |-> document_id,
                 done |-> FALSE, out |-> <<>>]

\* traverse_word_parents(word, document_id)
TraverseWordParents ==
    /\ call.fn = "traverse_word_parents"
    /\ ~call.done
    /\ IF driver = "none"
       THEN call' = [call EXCEPT !.done = TRUE,
                       !.out = traverse_word_parents_fallback(store, normalize(call.word),
                                                              call.document_id)]
       ELSE \E rows \in RowOrders(TraverseRows(graph, call.word, call.document_id)) :
              call' = [call EXCEPT !.done = TRUE, !.out = rows]
    /\ SystemUnchanged

NextTraverse == TraverseWordParents

SpecTraverse == InitTraverse /\ [][NextTraverse]_vars

\* the occurrences of a normalized word in one document, stated on the
\* text: the non-blank lines are numbered from 0, and so are the non-blank
\* space-free runs of each of them
OccurrencesIn(d, paragraph, nw) ==
    LET lines == SelectSeq(Runs(paragraph, "\n"), Truthy)
        words(l) == SelectSeq(Runs(lines[l], " "), Truthy)
    IN  UNION { { [docId |-> d, lineIndex |-> l - 1, lineText |-> lines[l],
                   paragraphText |-> paragraph, wordIndex |-> w - 1, raw |-> words(l)[w]]
                  : w \in {x \in DOMAIN words(l) : normalize(words(l)[x]) = nw} }
              : l \in DOMAIN lines }

\* C20: traverse_word_parents(word, document_id) returns one record for
\* every occurrence of the normalized word in the stored documents (of
\* document_id only when one is given), ordered by document id and then by
\* line index, from the graph and from the fallback alike.
C20_AllOccurrencesOrdered ==
    (call.fn = "traverse_word_parents" /\ call.done) =>
        LET out == call.out
            expected == UNION { OccurrencesIn(d, store[d], normalize(call.word))
                                  : d \in {x \in DOMAIN store : WantedDoc(call.document_id, x)} }
        IN  /\ Range(out) = expected
            /\ Len(out) = Cardinality(expected)
            /\ \A i \in DOMAIN out : WantedDoc(call.document_id, out[i].docId)
            /\ \A i, j \in DOMAIN out : i < j =>
                  \/ StrLess(IdChars(out[i].docId), IdChars(out[j].docId))
                  \/ out[i].docId = out[j].docId /\ out[i].lineIndex <= out[j].lineIndex

----------------------------------------------------------------------------
(* The service from the moment startup_index has completed with the graph   *)
(* backend available: requests, backend outages and restarts from there.    *)

InitRestart ==
    /\ store \in InitStores
    /\ graph = StartupGraph(store)
    /\ neo4jUp = TRUE
    /\ driver = "conn"
    /\ initialized = TRUE
    /\ running = TRUE
    /\ resp = Reply("startup", 0, "", "", <<>>)
    /\ nops = 0
    /\ thr = <<>>
    /\ call = NoCall

SpecRestart == InitRestart /\ [][Next]_vars

\* C25: whenever startup indexing has completed with the backend
\* available, the document ids in the graph index are the document ids in
\* the document store, and the graph-backed find_common_words reports no
\* document that is not stored.
C25_GraphIdsAreStoreIds ==
    (resp.op = "startup" /\ driver = "conn")
        => /\ graph.docs = DOMAIN store
           /\ \A e \in Range(find_common_words(graph)) : e.documents \subseteq DOMAIN store

----------------------------------------------------------------------------
(* find_common_words under test, over corpora: from the graph as startup    *)
(* left it, or with one document indexed again since, or from the files.    *)

InitCrosslinks ==
    /\ store \in Corpora
    /\ neo4jUp \in BOOLEAN
    /\ driver = IF neo4jUp THEN "conn" ELSE "none"
    /\ \/ graph = IF neo4jUp THEN StartupGraph(store) ELSE EmptyGraph
       \/ \E d \in DOMAIN store :
            graph = IF neo4jUp THEN index_document(StartupGraph(store), d, store[d], 0).graph
                    ELSE EmptyGraph
    /\ initialized = TRUE
    /\ running = TRUE
    /\ resp = NoResp
    /\ nops = 0
    /\ thr = <<>>
    /\ call = [fn |-> "find_common_words", done |-> FALSE, out |-> <<>>]

\* find_common_words()
FindCommonWords ==
    /\ call.fn = "find_common_words"
    /\ ~call.done
    /\ call' = [call EXCEPT !.done = TRUE,
                   !.out = IF driver = "none" THEN find_common_words_fallback(store)
                           ELSE find_common_words(graph)]
    /\ SystemUnchanged

NextCrosslinks == FindCommonWords

SpecCrosslinks == InitCrosslinks /\ [][NextCrosslinks]_vars

\* C21: the list find_common_words returns is ordered by descending
\* number of distinct owning documents and, among entries with the same
\* number, by ascending word; no two entries carry the same word.
C21_OrderedDistinct ==
    (call.fn = "find_common_words" /\ call.done) =>
        LET out == call.out
        IN  /\ \A i, j \in DOMAIN out : i < j =>
                  \/ Cardinality(out[i].documents) > Cardinality(out[j].documents)
                  \/ /\ Cardinality(out[i].documents) = Cardinality(out[j].documents)
                     /\ StrLess(out[i].word, out[j].word)
            /\ \A i, j \in DOMAIN out : i # j => out[i].word # out[j].word

\* a graph-backed result where the number of documents decides against the
\* alphabet: "b" of three documents before "a" of two
C21_Witness ==
    /\ call.fn = "find_common_words"
    /\ call.done
    /\ driver = "conn"
    /\ Len(call.out) = 2
    /\ Cardinality(call.out[1].documents) = 3
    /\ Cardinality(call.out[2].documents) = 2
    /\ StrLess(call.out[2].word, call.out[1].word)

----------------------------------------------------------------------------
(* split_text under test: split, rejoin with the delimiter, split again *)

SplitAlphabet == {"a", "b", " "}
SplitTexts == SeqsUpTo(SplitAlphabet, MaxLen)
SplitDelimiters == SeqsUpTo(SplitAlphabet, MaxDelimLen)

InitSplit ==
    /\ SystemIdle
    /\ \E t \in SplitTexts, d \in SplitDelimiters, l \in Levels :
         call = [fn |-> "split_text", text |-> t, delimiter |-> d, level |-> l,
                 done |-> FALSE, first |-> Ok(<<>>), again |-> Ok(<<>>)]

SplitRoundTrip ==
    /\ call.fn = "split_text"
    /\ ~call.done
    /\ LET first == split_text(call.text, call.delimiter, call.level)
           again == IF first.exc # "" THEN first
                    ELSE split_text(m_join(first.val, call.delimiter),
                                    call.delimiter, call.level)
       IN  call' = [call EXCEPT !.done = TRUE, !.first = first, !.again = again]
    /\ SystemUnchanged

NextSplit == SplitRoundTrip

SpecSplit == InitSplit /\ [][NextSplit]_vars

\* C9: for all text, delimiter and level, also the empty delimiter at levels
\* 1 and 2 and a non-empty delimiter at level 3, splitting the rejoined
\* output of split gives the segment sequence split gave.
C9_RoundTrip ==
    call.done =>
        /\ call.first.exc = ""
        /\ call.again.exc = ""
        /\ call.again.val = call.first.val

\* What "the literal delimiter split" of text is: pieces that rejoin to the
\* text with the delimiter, where each cut is the leftmost occurrence of the
\* delimiter after the previous cut and the last piece holds no delimiter.
Occurs(sep, s) == \E i \in 1..(Len(s) - Len(sep) + 1) : SubSeq(s, i, i + Len(sep) - 1) = sep
IsLiteralSplit(pieces, text, sep) ==
    /\ Len(pieces) >= 1
    /\ PyJoin(pieces, sep) = text
    /\ ~Occurs(sep, pieces[Len(pieces)])
    /\ \A k \in 1..(Len(pieces) - 1) :
         LET s == pieces[k] \o sep
         IN  \A i \in 1..Len(pieces[k]) : SubSeq(s, i, i + Len(sep) - 1) # sep

====
